---------------------------- MODULE AllocatingVio ----------------------------
(***************************************************************************)
(* Allocation of a data block by allocating vios across physical zones     *)
(* (src/vdo/allocating-vio.c).  A vio tries its zone's allocator, moves to *)
(* the next zone on VDO_NO_SPACE, and when no zone has known free blocks   *)
(* waits on a zone's slab scrubber for a clean slab, then starts over.     *)
(*                                                                         *)
(* Each zone's block allocator is abstracted to what allocating-vio.c      *)
(* observes: its free and used block counts, the number of slabs its       *)
(* scrubber still has to scrub, and the scrubber's queue of waiting vios.  *)
(* Every action is one callback on the thread of the vio's current zone;   *)
(* callbacks of different zones interleave.                                *)
(***************************************************************************)
EXTENDS Naturals, Sequences, FiniteSets

CONSTANTS
  ZoneCount,      \* thread_config->physical_zone_count
  Vios,           \* the allocating vios (model values)
  SlabBlocks,     \* most free blocks a scrubbed slab can yield
  MaxUsed,        \* bound on used blocks per zone (keeps counts finite)
  MaxSlabsToScrub \* most slabs a zone's scrubber starts with

ASSUME ZoneCount \in Nat \ {0}
ASSUME SlabBlocks \in Nat /\ MaxUsed \in Nat /\ MaxSlabsToScrub \in Nat

LOCAL SX == INSTANCE SequencesExt

Zones == 0 .. ZoneCount - 1

Phases == {"idle", "allocating", "waiting", "done"}

VARIABLES
  free,           \* zone -> free blocks in its recovered slabs
  used,           \* zone -> referenced blocks (confirmed writes)
  toScrub,        \* zone -> slabs its scrubber has still to scrub
  waiters,        \* zone -> the scrubber's queue of waiting vios
  phase,          \* vio -> where it is in the allocation
  zone,           \* vio -> allocating_vio->zone
  attempts,       \* vio -> allocating_vio->allocation_attempts
  waitForClean,   \* vio -> allocating_vio->wait_for_clean_slab
  allocated,      \* vio -> holds a provisionally referenced block
  result,         \* vio -> the result its allocation callback received
  (* history, for the properties only *)
  asked           \* vio -> zones whose scrubber answered VDO_NO_SPACE in
                  \*        the current wait-for-clean-slab round

vars == <<free, used, toScrub, waiters, phase, zone, attempts, waitForClean,
          allocated, result, asked>>

-----------------------------------------------------------------------------
(* The state as one record, so that the callbacks, which call each other *)
(* synchronously, compose as functions of it.                            *)
State == [free |-> free, used |-> used, toScrub |-> toScrub,
          waiters |-> waiters, phase |-> phase, zone |-> zone,
          attempts |-> attempts, wait |-> waitForClean,
          allocated |-> allocated, result |-> result, asked |-> asked]

SetState(st) ==
  /\ free' = st.free
  /\ used' = st.used
  /\ toScrub' = st.toScrub
  /\ waiters' = st.waiters
  /\ phase' = st.phase
  /\ zone' = st.zone
  /\ attempts' = st.attempts
  /\ waitForClean' = st.wait
  /\ allocated' = st.allocated
  /\ result' = st.result
  /\ asked' = st.asked

(* A variant comparing with <= instead of <. *)
HasZonesToTryInclusive(st, v) == st.attempts[v] <= ZoneCount

(* has_zones_to_try *)
HasZonesToTry(st, v) == st.attempts[v] < ZoneCount

(* finish_allocation: VDO_NO_SPACE is not an error, since the write will *)
(* still try to deduplicate; the allocation callback gets the result.    *)
FinishAllocation(st, v, res) ==
  [st EXCEPT !.phase[v] = "done",
             !.result[v] = IF res = "no_space" THEN "success" ELSE res]

(* A variant that queues the waiter even when nothing is left to scrub. *)
EnqueueForCleanSlabAlways(st, v, z) ==
  [res |-> "success",
   st |-> [st EXCEPT !.waiters[z] = Append(@, v), !.phase[v] = "waiting"]]

(* vdo_enqueue_for_clean_slab: VDO_SUCCESS if the waiter was queued,    *)
(* VDO_NO_SPACE if there are no slabs to scrub.                         *)
EnqueueForCleanSlab(st, v, z) ==
  IF st.toScrub[z] > 0
  THEN [res |-> "success",
        st |-> [st EXCEPT !.waiters[z] = Append(@, v),
                          !.phase[v] = "waiting"]]
  ELSE [res |-> "no_space", st |-> [st EXCEPT !.asked[v] = @ \cup {z}]]

(* A variant that keeps allocation_attempts when the wait round starts. *)
ShouldTryNextZoneKeepingAttempts(st, v) ==
  LET z == st.zone[v]
      st1 == IF ~st.wait[v] THEN [st EXCEPT !.wait[v] = TRUE, !.asked[v] = {}]
                            ELSE st
      e == EnqueueForCleanSlab(st1, v, z)
  IN  IF ~st.wait[v] /\ HasZonesToTry(st, v) THEN [next |-> TRUE, st |-> st]
      ELSE IF e.res = "success" THEN [next |-> FALSE, st |-> e.st]
      ELSE IF ~HasZonesToTry(e.st, v)
           THEN [next |-> FALSE, st |-> FinishAllocation(e.st, v, e.res)]
           ELSE [next |-> TRUE, st |-> e.st]

(* A variant that also moves on after queueing the vio on the scrubber. *)
ShouldTryNextZoneAfterEnqueue(st, v) ==
  LET z == st.zone[v]
      st1 == IF ~st.wait[v]
             THEN [st EXCEPT !.wait[v] = TRUE, !.attempts[v] = 1,
                             !.asked[v] = {}]
             ELSE st
      e == EnqueueForCleanSlab(st1, v, z)
  IN  IF ~st.wait[v] /\ HasZonesToTry(st, v) THEN [next |-> TRUE, st |-> st]
      ELSE IF e.res = "success" THEN [next |-> TRUE, st |-> e.st]
      ELSE IF ~HasZonesToTry(e.st, v)
           THEN [next |-> FALSE, st |-> FinishAllocation(e.st, v, e.res)]
           ELSE [next |-> TRUE, st |-> e.st]

(* should_try_next_zone: TRUE (with the state) when the vio should move *)
(* to the next zone.  When every zone has been tried it enters the wait *)
(* round (attempts = 1) and queues on this zone's scrubber; if that     *)
(* scrubber has nothing to scrub it moves on while zones remain, and    *)
(* finishes with VDO_NO_SPACE otherwise.                                *)
ShouldTryNextZone(st, v) ==
  LET z == st.zone[v]
      st1 == IF ~st.wait[v]
             THEN [st EXCEPT !.wait[v] = TRUE, !.attempts[v] = 1,
                             !.asked[v] = {}]
             ELSE st
      e == EnqueueForCleanSlab(st1, v, z)
  IN  IF ~st.wait[v] /\ HasZonesToTry(st, v) THEN [next |-> TRUE, st |-> st]
      ELSE IF e.res = "success" THEN [next |-> FALSE, st |-> e.st]
      ELSE IF ~HasZonesToTry(e.st, v)
           THEN [next |-> FALSE, st |-> FinishAllocation(e.st, v, e.res)]
           ELSE [next |-> TRUE, st |-> e.st]

(* try_next_zone: move to the next zone, wrapping, and launch            *)
(* allocate_block_in_zone on that zone's thread.                         *)
TryNextZone(st, v) ==
  LET r == ShouldTryNextZone(st, v)
  IN  IF r.next
      THEN [r.st EXCEPT !.zone[v] = (@ + 1) % ZoneCount,
                        !.phase[v] = "allocating"]
      ELSE r.st

(* allocate_block_in_zone: count the attempt and ask the zone's          *)
(* allocator (vdo_allocate_block); on success the new PBN lock is taken  *)
(* (attempt_pbn_write_lock) and the allocation finishes.                 *)
AllocateInZone(st, v) ==
  LET z == st.zone[v]
      st1 == [st EXCEPT !.attempts[v] = @ + 1]
  IN  IF st1.free[z] = 0
      THEN TryNextZone(st1, v)
      ELSE FinishAllocation([st1 EXCEPT !.free[z] = @ - 1,
                                        !.allocated[v] = TRUE],
                            v, "success")

(* retry_allocate_block_in_zone: a waiter woken by the scrubber starts   *)
(* the allocation process anew in the same zone.                         *)
RetryAllocateBlockInZone(st, v) ==
  AllocateInZone([st EXCEPT !.wait[v] = FALSE, !.attempts[v] = 0,
                            !.phase[v] = "allocating"], v)

(* The scrubber, after queueing a scrubbed slab, notifies every waiter   *)
(* (spec 4.6: "enqueues allocation waiters"): the queue is taken off the *)
(* scrubber and each waiter's retry runs in turn, in FIFO order; a retry *)
(* that has to wait again queues on the fresh list.                      *)
NotifyAllWaiters(st, z) ==
  SX!FoldLeft(RetryAllocateBlockInZone, [st EXCEPT !.waiters[z] = <<>>],
              st.waiters[z])

-----------------------------------------------------------------------------
(* Actions *)

Init ==
  /\ free \in [Zones -> 0 .. SlabBlocks]
  /\ used = [z \in Zones |-> 0]
  /\ toScrub \in [Zones -> 0 .. MaxSlabsToScrub]
  /\ waiters = [z \in Zones |-> <<>>]
  /\ phase = [v \in Vios |-> "idle"]
  /\ zone = [v \in Vios |-> 0]
  /\ attempts = [v \in Vios |-> 0]
  /\ waitForClean = [v \in Vios |-> FALSE]
  /\ allocated = [v \in Vios |-> FALSE]
  /\ result = [v \in Vios |-> "none"]
  /\ asked = [v \in Vios |-> {}]

(* vio_allocate_data_block: the selector picks the first zone, and       *)
(* allocate_block_in_zone is launched on its thread.                     *)
VioAllocateDataBlock(v, z) ==
  /\ phase[v] = "idle"
  /\ phase' = [phase EXCEPT ![v] = "allocating"]
  /\ zone' = [zone EXCEPT ![v] = z]
  /\ attempts' = [attempts EXCEPT ![v] = 0]
  /\ allocated' = [allocated EXCEPT ![v] = FALSE]
  /\ UNCHANGED <<free, used, toScrub, waiters, waitForClean, result, asked>>

(* allocate_block_in_zone, running on the vio's current zone. *)
AllocateBlockInZone(v) ==
  /\ phase[v] = "allocating"
  /\ SetState(AllocateInZone(State, v))

(* The zone's scrubber finishes a slab with k free blocks, queues it for *)
(* allocation and notifies its waiters.                                  *)
ScrubSlab(z, k) ==
  /\ toScrub[z] > 0
  /\ SetState(NotifyAllWaiters([State EXCEPT !.toScrub[z] = @ - 1,
                                             !.free[z] = @ + k], z))

(* The write that owns v is done with its allocation:                    *)
(* vio_release_allocation_lock releases the PBN lock, and with it the    *)
(* provisional reference unless the write confirmed it (written), then   *)
(* vio_reset_allocation clears the vio.  zone is NULL once reset; the    *)
(* model keeps 0.                                                       *)
ReleaseAllocation(v, written) ==
  /\ phase[v] = "done"
  /\ written => allocated[v] /\ used[zone[v]] < MaxUsed
  /\ free' = IF allocated[v] /\ ~written
             THEN [free EXCEPT ![zone[v]] = @ + 1] ELSE free
  /\ used' = IF written THEN [used EXCEPT ![zone[v]] = @ + 1] ELSE used
  /\ phase' = [phase EXCEPT ![v] = "idle"]
  /\ zone' = [zone EXCEPT ![v] = 0]
  /\ attempts' = [attempts EXCEPT ![v] = 0]
  /\ waitForClean' = [waitForClean EXCEPT ![v] = FALSE]
  /\ allocated' = [allocated EXCEPT ![v] = FALSE]
  /\ result' = [result EXCEPT ![v] = "none"]
  /\ asked' = [asked EXCEPT ![v] = {}]
  /\ UNCHANGED <<toScrub, waiters>>

(* A referenced block of zone z is overwritten or discarded: its count *)
(* drops to zero and the allocator gains a free block.                 *)
ReleaseUsedBlock(z) ==
  /\ used[z] > 0
  /\ used' = [used EXCEPT ![z] = @ - 1]
  /\ free' = [free EXCEPT ![z] = @ + 1]
  /\ UNCHANGED <<toScrub, waiters, phase, zone, attempts, waitForClean,
                 allocated, result, asked>>

Next ==
  \/ \E v \in Vios, z \in Zones : VioAllocateDataBlock(v, z)
  \/ \E v \in Vios : AllocateBlockInZone(v)
  \/ \E z \in Zones, k \in 0 .. SlabBlocks : ScrubSlab(z, k)
  \/ \E v \in Vios, w \in BOOLEAN : ReleaseAllocation(v, w)
  \/ \E z \in Zones : ReleaseUsedBlock(z)

(* A launched callback runs on its zone's thread, and the scrubber keeps *)
(* scrubbing while it has slabs: both weakly fair.  Requests, releases   *)
(* and overwrites come from the writes and need no fairness.             *)
Fairness ==
  /\ \A v \in Vios : WF_vars(AllocateBlockInZone(v))
  /\ \A z \in Zones : WF_vars(\E k \in 0 .. SlabBlocks : ScrubSlab(z, k))

Spec == Init /\ [][Next]_vars /\ Fairness

-----------------------------------------------------------------------------
(* Properties *)

TypeOK ==
  /\ free \in [Zones -> Nat]
  /\ used \in [Zones -> 0 .. MaxUsed]
  /\ toScrub \in [Zones -> 0 .. MaxSlabsToScrub]
  /\ waiters \in [Zones -> Seq(Vios)]
  /\ phase \in [Vios -> Phases]
  /\ zone \in [Vios -> Zones]
  /\ attempts \in [Vios -> 0 .. ZoneCount]
  /\ waitForClean \in [Vios -> BOOLEAN]
  /\ allocated \in [Vios -> BOOLEAN]
  /\ result \in [Vios -> {"none", "success"}]
  /\ asked \in [Vios -> SUBSET Zones]

Occurrences(v) ==
  SX!FoldFunction(LAMBDA q, n : n + SX!FoldSeq(LAMBDA e, m :
                                   IF e = v THEN m + 1 ELSE m, 0, q),
                  0, waiters)

(* A vio is waiting exactly when it is queued, once, on the scrubber of  *)
(* its current zone: retry_allocate_block_in_zone may queue a vio again *)
(* while the scrubber is still walking the waiters it notifies.         *)
WaitingVioQueuedOnce ==
  \A v \in Vios :
     /\ Occurrences(v) = (IF phase[v] = "waiting" THEN 1 ELSE 0)
     /\ phase[v] = "waiting" => v \in SX!ToSet(waiters[zone[v]])

(* A vio that gets no block has had every zone's scrubber answer         *)
(* VDO_NO_SPACE in its last round (allocation_attempts restarts at 1     *)
(* when the wait-for-clean-slab round begins).                           *)
NoSpaceMeansEveryScrubberAsked ==
  \A v \in Vios : (phase[v] = "done" /\ ~allocated[v]) => asked[v] = Zones

(* Every allocation request eventually finishes, with or without a      *)
(* block, however the zones' scrubbing and the other vios interleave.   *)
EveryAllocationFinishes ==
  \A v \in Vios : (phase[v] \in {"allocating", "waiting"}) ~> (phase[v] = "done")

=============================================================================
