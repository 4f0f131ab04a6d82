--------------------------- MODULE BlockAllocator ---------------------------
(***************************************************************************)
(* One physical zone's block allocator (src/vdo/block-allocator.c) with    *)
(* the slabs it owns.  Everything here runs on the allocator's thread, so  *)
(* each action is one callback run to completion.                          *)
(*                                                                         *)
(* Modelled: preparing the slabs for allocation after a load (ordering by *)
(* slab status, queueing or registering for scrubbing, high-priority      *)
(* scrubbing), vdo_allocate_block and the provisional reference protocol  *)
(* (confirm, vacate, share, decrement), vdo_queue_slab and                *)
(* vdo_adjust_free_block_count, background scrubbing, and the drain and   *)
(* resume step machines with apply_to_slabs.                              *)
(*                                                                         *)
(* Reference counts, slab journals, the scrubber and the admin state are  *)
(* not part of this tree; their behaviour is taken from the spec (4.2,    *)
(* 4.3, 4.6) at the level the allocator observes it.  A slab's refCounts  *)
(* are the counts it holds once recovered: for an unrecovered slab they   *)
(* are what scrubbing its journal will rebuild.                           *)
(***************************************************************************)
EXTENDS Integers, Sequences, FiniteSets

CONSTANTS
  SlabCount,      \* slabs owned by this allocator: numbers 0 .. SlabCount-1
  DataBlocks,     \* data blocks per slab (slab_config.data_blocks)
  MaxReferences,  \* the saturating maximum reference count
  MaxDrains,      \* bound on drain/resume cycles
  NoSlab,         \* model value: open_slab == NULL
  SlabImages,     \* loadable per-slab states: counts, journal, summary
  LoadTypes       \* subset of {"normal", "recovery", "rebuild"}

ASSUME SlabCount \in Nat \ {0}
ASSUME DataBlocks \in Nat /\ DataBlocks >= 2
ASSUME MaxReferences \in Nat \ {0}
ASSUME MaxDrains \in Nat

LOCAL SP == INSTANCE SlabPriority
LOCAL PT == INSTANCE PriorityTable
LOCAL SX == INSTANCE SequencesExt

Slabs == 0 .. SlabCount - 1
Blocks == 0 .. DataBlocks - 1

(* The provisional reference sentinel sits just above the numeric range, *)
(* as the on-disk encoding does.                                         *)
Provisional == MaxReferences + 1
Counts == 0 .. Provisional

(* Steps of the drain/resume machine (VDO_DRAIN_ALLOCATOR_STEP_...). *)
StepStart == 0
StepScrubber == 1
StepSlabs == 2
StepSummary == 3
StepFinished == 4

Results == {"success", "io_error"}

VARIABLES
  refCounts,          \* slab -> block -> count (ref_counts)
  searchCursor,       \* slab -> next block to search from; DataBlocks
                      \* is the end, from which the search wraps
  journalBlank,       \* slab -> slab journal never written
  unrecovered,        \* slab -> vdo_is_unrecovered_slab
  slabPriority,       \* slab -> slab->priority
  prioritizedSlabs,   \* allocator->prioritized_slabs
  openSlab,           \* allocator->open_slab
  highPrioritySlabs,  \* scrubber's high priority list
  slabsToScrub,       \* scrubber's normal list
  allocatedBlocks,    \* allocator->allocated_blocks
  adminState,         \* "loaded", "preparing", "normal", "draining",
                      \* "suspended", "resuming"
  drainStep,          \* allocator->drain_step
  operationResult,    \* result latched in the admin state
  summary,            \* slab -> summarized status read at load
  loadType,           \* depot->load_type
  drains,             \* drains started so far (bounded)
  (* history, for the properties only *)
  drainFailed,        \* some step of the current drain failed
  drainResult,        \* result the last drain finished with
  noSpace             \* the last step was an allocation that
                      \* returned VDO_NO_SPACE

vars == <<refCounts, searchCursor, journalBlank, unrecovered, slabPriority,
          prioritizedSlabs, openSlab, highPrioritySlabs, slabsToScrub,
          allocatedBlocks, adminState, drainStep, operationResult, summary,
          loadType, drains, drainFailed, drainResult, noSpace>>

-----------------------------------------------------------------------------
(* Helpers over the reference counts *)

FreeBlockCount(rc, s) == Cardinality({b \in Blocks : rc[s][b] = 0})

(* calculate_slab_priority for slab s under counts rc. *)
CalculateSlabPriority(rc, blank, s) ==
  SP!CalculateSlabPriority(FreeBlockCount(rc, s), blank[s], DataBlocks)

(* A table sized for 1 + log2(data_blocks), without the bucket that the *)
(* unopened-slab offset pushes an empty written slab into.               *)
MaxPriorityOneLower == SP!MaxPriority(DataBlocks) - 1

(* allocate_components: the priority table's top bucket. *)
MaxPriority == SP!MaxPriority(DataBlocks)

(* vdo_allocate_unreferenced_block: the first free block at or after the *)
(* cursor, wrapping once.  Only used when the slab has a free block.     *)
FindUnreferencedBlock(s, from) ==
  LET offsets == {i \in Blocks : refCounts[s][(from + i) % DataBlocks] = 0}
  IN  (from + SX!Min(offsets)) % DataBlocks

-----------------------------------------------------------------------------
(* The allocator's queueing state as one record, so that the helpers    *)
(* below compose the way the C calls do.                                 *)
Queues == [table |-> prioritizedSlabs, priority |-> slabPriority,
           high |-> highPrioritySlabs, normal |-> slabsToScrub,
           allocated |-> allocatedBlocks, unrecovered |-> unrecovered]

SetQueues(q) ==
  /\ prioritizedSlabs' = q.table
  /\ slabPriority' = q.priority
  /\ highPrioritySlabs' = q.high
  /\ slabsToScrub' = q.normal
  /\ allocatedBlocks' = q.allocated
  /\ unrecovered' = q.unrecovered

(* prioritize_slab: compute the priority and enqueue at it. *)
PrioritizeSlab(q, s, rc, blank) ==
  LET p == CalculateSlabPriority(rc, blank, s)
  IN  [q EXCEPT !.priority[s] = p,
                !.table = PT!PriorityTableEnqueue(@, p, s)]

(* vdo_register_slab_for_scrubbing *)
RegisterSlabForScrubbing(q, s, highPriority) ==
  IF highPriority THEN [q EXCEPT !.high = Append(@, s)]
                  ELSE [q EXCEPT !.normal = Append(@, s)]

(* Variants of vdo_queue_slab: one that never routes an unrecovered slab *)
(* to the scrubber, one that loses it, and one that subtracts a resuming *)
(* slab's free blocks again.                                             *)
QueueSlabIgnoringUnrecovered(q, s, resuming, rc, blank) ==
  PrioritizeSlab(IF resuming THEN q
                 ELSE [q EXCEPT !.allocated = @ - FreeBlockCount(rc, s)],
                 s, rc, blank)

QueueSlabDroppingUnrecovered(q, s, resuming, rc, blank) ==
  IF q.unrecovered[s]
  THEN q
  ELSE PrioritizeSlab(IF resuming THEN q
                      ELSE [q EXCEPT !.allocated = @ - FreeBlockCount(rc, s)],
                      s, rc, blank)

QueueSlabRecounting(q, s, resuming, rc, blank) ==
  IF q.unrecovered[s]
  THEN RegisterSlabForScrubbing(q, s, FALSE)
  ELSE PrioritizeSlab([q EXCEPT !.allocated = @ - FreeBlockCount(rc, s)],
                      s, rc, blank)

(* vdo_queue_slab: unrecovered slabs go to the scrubber; others are      *)
(* counted (unless resuming, already counted) and prioritized.           *)
QueueSlab(q, s, resuming, rc, blank) ==
  IF q.unrecovered[s]
  THEN RegisterSlabForScrubbing(q, s, FALSE)
  ELSE PrioritizeSlab(
         IF resuming THEN q
         ELSE [q EXCEPT !.allocated = @ - FreeBlockCount(rc, s)],
         s, rc, blank)

(* A variant that counts but never reprioritizes. *)
AdjustFreeBlockCountNoRequeue(q, s, increment, rc, blank, open) ==
  [q EXCEPT !.allocated = IF increment THEN @ - 1 ELSE @ + 1]

(* vdo_adjust_free_block_count, called after the counts became rc. *)
AdjustFreeBlockCount(q, s, increment, rc, blank, open) ==
  LET counted == [q EXCEPT !.allocated = IF increment THEN @ - 1 ELSE @ + 1]
  IN  IF s = open \/ q.priority[s] = CalculateSlabPriority(rc, blank, s)
      THEN counted
      ELSE PrioritizeSlab([counted EXCEPT
                             !.table = PT!PriorityTableRemove(@, s)],
                          s, rc, blank)

(* apply_to_slabs: the open slab is cleared and every slab is unlinked   *)
(* from the priority table and the scrubber lists (allocq_entry).        *)
DetachAllSlabs(q) ==
  [q EXCEPT !.table = PT!MakePriorityTable(MaxPriority),
            !.high = <<>>, !.normal = <<>>]

-----------------------------------------------------------------------------
(* Load ordering *)

(* compare_slab_statuses: cleaner first, then emptier, then lower slab   *)
(* number; TRUE when a pops off the heap before b.                       *)
CompareSlabStatuses(a, b) ==
  IF summary[a].clean # summary[b].clean THEN summary[a].clean
  ELSE IF summary[a].emptiness # summary[b].emptiness
       THEN summary[a].emptiness > summary[b].emptiness
       ELSE a < b

(* The order in which the heap built in vdo_prepare_slabs_for_allocation *)
(* pops the slab statuses.                                               *)
SlabStatusOrder ==
  SX!SortSeq([i \in 1 .. SlabCount |-> i - 1], CompareSlabStatuses)

(* get_slab_iterator: from last_slab down to slab 0. *)
SlabIteratorOrder == [i \in 1 .. SlabCount |-> SlabCount - i]

(* One iteration of the loop in vdo_prepare_slabs_for_allocation. *)
PrepareSlab(q, s) ==
  IF loadType = "rebuild" \/ (~summary[s].mustLoadRefs /\ summary[s].clean)
  THEN QueueSlab(q, s, FALSE, refCounts, journalBlank)
  ELSE RegisterSlabForScrubbing(
         [q EXCEPT !.unrecovered[s] = TRUE], s,
         (summary[s].clean /\ loadType = "normal")
           \/ summary[s].requiresScrubbing)

(* A variant that ignores scrub_at_least_one. *)
ScrubAtLeastOneNever(q, scrubAtLeastOne) == q

(* vdo_scrub_high_priority_slabs(scrub_at_least_one): with nothing      *)
(* queued for allocation, one normal slab is promoted so that the        *)
(* allocator has a slab once preparation completes.                      *)
ScrubAtLeastOne(q, scrubAtLeastOne) ==
  IF scrubAtLeastOne /\ q.high = <<>> /\ q.normal # <<>>
  THEN [q EXCEPT !.high = <<Head(q.normal)>>, !.normal = Tail(@)]
  ELSE q

-----------------------------------------------------------------------------
(* Actions *)

Init ==
  \E image \in [Slabs -> SlabImages], lt \in LoadTypes :
     /\ refCounts = [s \in Slabs |-> image[s].refs]
     /\ searchCursor = [s \in Slabs |-> 0]
     \* a rebuild load erases every slab journal (vdo_erase_slab_journals)
     /\ journalBlank = [s \in Slabs |-> image[s].blank \/ lt = "rebuild"]
     /\ unrecovered = [s \in Slabs |-> FALSE]
     /\ slabPriority = [s \in Slabs |-> 0]
     /\ prioritizedSlabs = PT!MakePriorityTable(MaxPriority)
     /\ openSlab = NoSlab
     /\ highPrioritySlabs = <<>>
     /\ slabsToScrub = <<>>
     /\ allocatedBlocks = 0
     /\ adminState = "loaded"
     /\ drainStep = StepStart
     /\ operationResult = "success"
     /\ summary = [s \in Slabs |->
                     [clean |-> image[s].clean,
                      mustLoadRefs |-> image[s].mustLoadRefs,
                      requiresScrubbing |-> image[s].requiresScrubbing,
                      emptiness |-> image[s].emptiness]]
     /\ loadType = lt
     /\ drains = 0
     /\ drainFailed = FALSE
     /\ drainResult = "success"
     /\ noSpace = FALSE

(* vdo_prepare_block_allocator_to_allocate *)
PrepareToAllocate ==
  /\ adminState = "loaded"
  /\ LET q0 == [Queues EXCEPT !.allocated = SlabCount * DataBlocks]
         q1 == SX!FoldLeft(PrepareSlab, q0, SlabStatusOrder)
     IN  SetQueues(ScrubAtLeastOne(q1, PT!IsPriorityTableEmpty(q1.table)))
  /\ adminState' = "preparing"
  /\ noSpace' = FALSE
  /\ UNCHANGED <<refCounts, searchCursor, journalBlank, openSlab, drainStep,
                 operationResult, summary, loadType, drains, drainFailed,
                 drainResult>>

(* The scrubber finishes replaying one slab's journal and hands the slab *)
(* back through vdo_queue_slab.  While preparing only the high priority *)
(* list is scrubbed.                                                    *)
ScrubSlab ==
  /\ adminState \in {"preparing", "normal"}
  /\ \/ highPrioritySlabs # <<>>
     \/ adminState = "normal" /\ slabsToScrub # <<>>
  /\ LET fromHigh == highPrioritySlabs # <<>>
         s == IF fromHigh THEN Head(highPrioritySlabs) ELSE Head(slabsToScrub)
         q == [Queues EXCEPT !.high = IF fromHigh THEN Tail(@) ELSE @,
                             !.normal = IF fromHigh THEN @ ELSE Tail(@),
                             !.unrecovered[s] = FALSE]
     IN  SetQueues(QueueSlab(q, s, FALSE, refCounts, journalBlank))
  /\ noSpace' = FALSE
  /\ UNCHANGED <<refCounts, searchCursor, journalBlank, openSlab, adminState,
                 drainStep, operationResult, summary, loadType, drains,
                 drainFailed, drainResult>>

(* The high priority scrub completes the prepare_to_allocate parent. *)
FinishPreparing ==
  /\ adminState = "preparing"
  /\ highPrioritySlabs = <<>>
  /\ adminState' = "normal"
  /\ noSpace' = FALSE
  /\ UNCHANGED <<refCounts, searchCursor, journalBlank, unrecovered,
                 slabPriority, prioritizedSlabs, openSlab, highPrioritySlabs,
                 slabsToScrub, allocatedBlocks, drainStep, operationResult,
                 summary, loadType, drains, drainFailed, drainResult>>

(* allocate_slab_block on slab s whose search starts at cursor: the      *)
(* first unreferenced block becomes PROVISIONAL, the cursor moves past   *)
(* it (spec 4.2), and the free count is                                  *)
(* adjusted with s as the open slab; VDO_NO_SPACE when none is free.     *)
AllocateSlabBlock(q, s, cursor) ==
  IF FreeBlockCount(refCounts, s) = 0
  THEN /\ SetQueues(q)
       /\ searchCursor' = [searchCursor EXCEPT ![s] = cursor]
       /\ noSpace' = TRUE
       /\ UNCHANGED refCounts
  ELSE LET b == FindUnreferencedBlock(s, cursor)
           rc == [refCounts EXCEPT ![s][b] = Provisional]
       IN  /\ refCounts' = rc
           /\ searchCursor' = [searchCursor EXCEPT ![s] = b + 1]
           /\ SetQueues(AdjustFreeBlockCount(q, s, FALSE, rc, journalBlank, s))
           /\ noSpace' = FALSE

(* A vdo_allocate_block that returns the open slab's VDO_NO_SPACE       *)
(* without opening another slab.                                         *)
AllocateWithoutRetry ==
  /\ adminState = "normal"
  /\ IF openSlab # NoSlab
     THEN /\ AllocateSlabBlock(Queues, openSlab, searchCursor[openSlab])
          /\ UNCHANGED openSlab
     ELSE LET d == PT!PriorityTableDequeue(Queues.table)
          IN  /\ ~PT!IsPriorityTableEmpty(Queues.table)
              /\ openSlab' = d.entry
              /\ AllocateSlabBlock([Queues EXCEPT !.table = d.table], d.entry, 0)
  /\ UNCHANGED <<journalBlank, adminState, drainStep, operationResult,
                 summary, loadType, drains, drainFailed, drainResult>>

(* vdo_allocate_block: try the open slab; on VDO_NO_SPACE put it back in *)
(* the table, open the highest priority slab (vdo_open_slab resets its   *)
(* search cursor) and try once more.  priority_table_dequeue on an empty *)
(* table yields NULL, which is then dereferenced: the action has no step *)
(* for that case and OpenSlabAvailable states it never arises.           *)
Allocate ==
  /\ adminState = "normal"
  /\ IF openSlab # NoSlab /\ FreeBlockCount(refCounts, openSlab) > 0
     THEN /\ AllocateSlabBlock(Queues, openSlab, searchCursor[openSlab])
          /\ UNCHANGED openSlab
     ELSE LET q1 == IF openSlab # NoSlab
                    THEN PrioritizeSlab(Queues, openSlab, refCounts,
                                        journalBlank)
                    ELSE Queues
              d == PT!PriorityTableDequeue(q1.table)
          IN  /\ ~PT!IsPriorityTableEmpty(q1.table)
              /\ openSlab' = d.entry
              /\ AllocateSlabBlock([q1 EXCEPT !.table = d.table], d.entry, 0)
  /\ UNCHANGED <<journalBlank, adminState, drainStep, operationResult,
                 summary, loadType, drains, drainFailed, drainResult>>

(* A reference count update through vdo_modify_slab_reference_count     *)
(* (slab.c, spec 4.2-4.3): the count of block b in slab s becomes n;     *)
(* journaled updates make the slab journal non-blank.  A recovered slab *)
(* whose block became free or used calls vdo_adjust_free_block_count;   *)
(* an unrecovered slab only records the journal entry, scrubbing will   *)
(* rebuild its counts.                                                  *)
ModifyReferenceCount(s, b, n, journaled) ==
  LET rc == [refCounts EXCEPT ![s][b] = n]
      blank == [journalBlank EXCEPT ![s] = @ /\ ~journaled]
      freed == refCounts[s][b] # 0 /\ n = 0
  IN  /\ refCounts' = rc
      /\ journalBlank' = blank
      /\ IF freed /\ ~unrecovered[s]
         THEN SetQueues(AdjustFreeBlockCount(Queues, s, TRUE, rc, blank,
                                             openSlab))
         ELSE UNCHANGED <<unrecovered, slabPriority, prioritizedSlabs,
                          highPrioritySlabs, slabsToScrub, allocatedBlocks>>
      /\ noSpace' = FALSE
      /\ UNCHANGED <<searchCursor, openSlab, adminState, drainStep,
                     operationResult, summary, loadType, drains,
                     drainFailed, drainResult>>

(* A journaled DATA_INCREMENT confirms a provisional reference. *)
Confirm(s, b) ==
  /\ adminState = "normal"
  /\ refCounts[s][b] = Provisional
  /\ ModifyReferenceCount(s, b, 1, TRUE)

(* vdo_release_block_reference: an unjournaled DATA_DECREMENT vacating a *)
(* provisional reference that was never used.                           *)
ReleaseBlockReference(s, b) ==
  /\ adminState = "normal"
  /\ refCounts[s][b] = Provisional
  /\ ModifyReferenceCount(s, b, 0, FALSE)

(* A journaled DATA_INCREMENT sharing a referenced block (dedupe); a     *)
(* saturated count stays put, so only counts below the maximum change.   *)
Share(s, b) ==
  /\ adminState = "normal"
  /\ refCounts[s][b] \in 1 .. MaxReferences - 1
  /\ ModifyReferenceCount(s, b, refCounts[s][b] + 1, TRUE)

(* A journaled DATA_DECREMENT of a referenced block (overwrite, discard). *)
Decrement(s, b) ==
  /\ adminState = "normal"
  /\ refCounts[s][b] \in 1 .. MaxReferences
  /\ ModifyReferenceCount(s, b, refCounts[s][b] - 1, TRUE)

-----------------------------------------------------------------------------
(* Drain and resume.  Each step is one callback of the allocator's      *)
(* completion; the action taking the machine from step k to step k+1    *)
(* is the completion of step k, with its result, followed by the start   *)
(* of step k+1.                                                         *)

(* A variant in which each step's result overwrites the latched one. *)
HandleOperationErrorLastWins(latched, result) == result

(* handle_operation_error: vdo_set_operation_result keeps the first     *)
(* error in the admin state; the step then proceeds as if it succeeded.  *)
HandleOperationError(latched, result) ==
  IF result # "success" /\ latched = "success" THEN result ELSE latched

(* vdo_drain_block_allocator -> initiate_drain -> do_drain_step: start  *)
(* the operation (its result reset) and stop the scrubber.              *)
StartDrain ==
  /\ adminState = "normal"
  /\ drains < MaxDrains
  /\ adminState' = "draining"
  /\ drainStep' = StepScrubber
  /\ operationResult' = "success"
  /\ drains' = drains + 1
  /\ drainFailed' = FALSE
  /\ noSpace' = FALSE
  /\ UNCHANGED <<refCounts, searchCursor, journalBlank, unrecovered,
                 slabPriority, prioritizedSlabs, openSlab, highPrioritySlabs,
                 slabsToScrub, allocatedBlocks, summary, loadType,
                 drainResult>>

(* The scrubber has stopped: apply_to_slabs drains every slab.  The open *)
(* slab is cleared and every slab unlinked from its list.               *)
DrainSlabs ==
  /\ adminState = "draining"
  /\ drainStep = StepScrubber
  /\ drainStep' = StepSlabs
  /\ SetQueues(DetachAllSlabs(Queues))
  /\ openSlab' = NoSlab
  /\ UNCHANGED <<refCounts, searchCursor, journalBlank, summary, loadType,
                 adminState, operationResult, drains, drainFailed,
                 drainResult>>
  /\ noSpace' = FALSE

(* The slab actions (step SLABS) or the summary drain (step SUMMARY)    *)
(* complete with result; an error goes through handle_operation_error   *)
(* and the machine moves on (vdo_prepare_completion_for_requeue clears  *)
(* the completion's result).                                            *)
DrainStepDone(result) ==
  /\ adminState = "draining"
  /\ drainStep \in {StepSlabs, StepSummary}
  /\ drainStep' = drainStep + 1
  /\ operationResult' = HandleOperationError(operationResult, result)
  /\ drainFailed' = (drainFailed \/ result # "success")
  /\ UNCHANGED <<refCounts, searchCursor, journalBlank, unrecovered,
                 slabPriority, prioritizedSlabs, openSlab, highPrioritySlabs,
                 slabsToScrub, allocatedBlocks, summary, loadType,
                 adminState, drains, drainResult>>
  /\ noSpace' = FALSE

(* Step FINISHED: vdo_finish_draining_with_result with the completion's *)
(* (cleared) result; the admin state reports what it latched.           *)
FinishDrain ==
  /\ adminState = "draining"
  /\ drainStep = StepFinished
  /\ adminState' = "suspended"
  /\ drainResult' = HandleOperationError(operationResult, "success")
  /\ noSpace' = FALSE
  /\ UNCHANGED <<refCounts, searchCursor, journalBlank, unrecovered,
                 slabPriority, prioritizedSlabs, openSlab, highPrioritySlabs,
                 slabsToScrub, allocatedBlocks, summary, loadType, drainStep,
                 operationResult, drains, drainFailed>>

(* vdo_resume_block_allocator -> initiate_resume: drain_step is set to  *)
(* FINISHED and decremented to SUMMARY, resuming the summary zone.      *)
StartResume ==
  /\ adminState = "suspended"
  /\ adminState' = "resuming"
  /\ drainStep' = StepSummary
  /\ operationResult' = "success"
  /\ noSpace' = FALSE
  \* the drain's history is only kept while it is suspended
  /\ drainFailed' = FALSE
  /\ drainResult' = "success"
  /\ UNCHANGED <<refCounts, searchCursor, journalBlank, unrecovered,
                 slabPriority, prioritizedSlabs, openSlab, highPrioritySlabs,
                 slabsToScrub, allocatedBlocks, summary, loadType, drains>>

(* Step SLABS of the resume: apply_to_slabs resumes every slab, from the *)
(* last slab down, and each resuming slab is handed to vdo_queue_slab,   *)
(* whose allocated_blocks were already accounted for.                   *)
ResumeSlabs ==
  /\ adminState = "resuming"
  /\ drainStep = StepSummary
  /\ drainStep' = StepSlabs
  /\ openSlab' = NoSlab
  /\ SetQueues(SX!FoldLeft(
        LAMBDA q, s : QueueSlab(q, s, TRUE, refCounts, journalBlank),
        DetachAllSlabs(Queues), SlabIteratorOrder))
  /\ UNCHANGED <<refCounts, searchCursor, journalBlank, summary, loadType,
                 adminState, operationResult, drains, drainFailed,
                 drainResult>>
  /\ noSpace' = FALSE

(* Step SCRUBBER: vdo_resume_slab_scrubbing. *)
ResumeScrubber ==
  /\ adminState = "resuming"
  /\ drainStep = StepSlabs
  /\ drainStep' = StepScrubber
  /\ UNCHANGED <<refCounts, searchCursor, journalBlank, unrecovered,
                 slabPriority, prioritizedSlabs, openSlab, highPrioritySlabs,
                 slabsToScrub, allocatedBlocks, summary, loadType, adminState,
                 operationResult, drains, drainFailed, drainResult>>
  /\ noSpace' = FALSE

(* Step START: vdo_finish_resuming_with_result. *)
FinishResume ==
  /\ adminState = "resuming"
  /\ drainStep = StepScrubber
  /\ drainStep' = StepStart
  /\ adminState' = "normal"
  /\ noSpace' = FALSE
  /\ UNCHANGED <<refCounts, searchCursor, journalBlank, unrecovered,
                 slabPriority, prioritizedSlabs, openSlab, highPrioritySlabs,
                 slabsToScrub, allocatedBlocks, summary, loadType,
                 operationResult, drains, drainFailed, drainResult>>

-----------------------------------------------------------------------------
UserOperation ==
  \/ Allocate
  \/ \E s \in Slabs, b \in Blocks :
        \/ Confirm(s, b)
        \/ ReleaseBlockReference(s, b)
        \/ Share(s, b)
        \/ Decrement(s, b)

AdminOperation ==
  \/ PrepareToAllocate
  \/ FinishPreparing
  \/ StartDrain
  \/ DrainSlabs
  \/ \E r \in Results : DrainStepDone(r)
  \/ FinishDrain
  \/ StartResume
  \/ ResumeSlabs
  \/ ResumeScrubber
  \/ FinishResume

Next == UserOperation \/ ScrubSlab \/ AdminOperation

(* Every callback on the allocator's thread runs once it is queued: the *)
(* admin steps and the scrubber, which re-launches itself after each    *)
(* slab, are weakly fair.  User operations need no fairness.            *)
Fairness ==
  /\ WF_vars(ScrubSlab)
  /\ WF_vars(PrepareToAllocate)
  /\ WF_vars(FinishPreparing)
  /\ WF_vars(DrainSlabs)
  /\ WF_vars(\E r \in Results : DrainStepDone(r))
  /\ WF_vars(FinishDrain)
  /\ WF_vars(ResumeSlabs)
  /\ WF_vars(ResumeScrubber)
  /\ WF_vars(FinishResume)

Spec == Init /\ [][Next]_vars /\ Fairness

-----------------------------------------------------------------------------
(* Properties *)

AdminStates == {"loaded", "preparing", "normal", "draining", "suspended",
                "resuming"}

TypeOK ==
  /\ refCounts \in [Slabs -> [Blocks -> Counts]]
  /\ searchCursor \in [Slabs -> 0 .. DataBlocks]
  /\ journalBlank \in [Slabs -> BOOLEAN]
  /\ unrecovered \in [Slabs -> BOOLEAN]
  /\ slabPriority \in [Slabs -> 0 .. MaxPriority]
  /\ DOMAIN prioritizedSlabs = 0 .. MaxPriority
  /\ PT!TableEntries(prioritizedSlabs) \subseteq Slabs
  /\ openSlab \in Slabs \cup {NoSlab}
  /\ highPrioritySlabs \in Seq(Slabs)
  /\ slabsToScrub \in Seq(Slabs)
  /\ allocatedBlocks \in Int
  /\ adminState \in AdminStates
  /\ drainStep \in StepStart .. StepFinished
  /\ operationResult \in Results
  /\ drains \in 0 .. MaxDrains
  /\ drainFailed \in BOOLEAN
  /\ drainResult \in Results

Linked == adminState \in {"preparing", "normal"}
            \/ (adminState = "resuming" /\ drainStep \in {StepSlabs,
                                                          StepScrubber})
Counted == adminState # "loaded"

(* Occurrences of slab s on the allocator's lists. *)
Occurrences(s) ==
  Cardinality({<<p, i>> \in (0 .. MaxPriority) \X (1 .. SlabCount) :
                 i \in DOMAIN prioritizedSlabs[p]
                 /\ prioritizedSlabs[p][i] = s})
  + SX!FoldSeq(LAMBDA e, n : IF e = s THEN n + 1 ELSE n, 0,
               highPrioritySlabs \o slabsToScrub)
  + (IF openSlab = s THEN 1 ELSE 0)

(* Spec 8.3: while the allocator's slabs are linked, every slab is in    *)
(* exactly one place: the open slab, once in the priority table, or once *)
(* on one scrubber list, and it is on a scrubber list exactly when it is *)
(* unrecovered.  Breaks if vdo_allocate_block drops an exhausted open    *)
(* slab, a slab is queued twice across a drain and resume, or a          *)
(* scrubbed slab is not handed back through vdo_queue_slab.              *)
SlabInExactlyOnePlace ==
  Linked =>
    \A s \in Slabs :
       /\ Occurrences(s) = 1
       /\ unrecovered[s] <=>
            s \in SX!ToSet(highPrioritySlabs \o slabsToScrub)

(* allocated_blocks (vdo_queue_slab, vdo_adjust_free_block_count) equals *)
(* the blocks in use in recovered slabs plus every block of each         *)
(* unrecovered slab: prepare starts from all blocks allocated and each   *)
(* slab's free blocks are subtracted exactly once, when it is first     *)
(* queued, and never again when it is re-queued by a resume.             *)
AllocatedBlocksAccurate ==
  Counted =>
    allocatedBlocks =
      SX!FoldSet(LAMBDA s, n :
                   n + (IF unrecovered[s] THEN DataBlocks
                        ELSE DataBlocks - FreeBlockCount(refCounts, s)),
                 0, Slabs)

(* A queued slab sits in the bucket of its recorded priority, and that  *)
(* priority is what calculate_slab_priority gives for the slab now, with *)
(* one exception: a slab queued at the unopened priority while its      *)
(* journal was blank keeps it when a journaled increment confirming a   *)
(* provisional block makes the journal non-blank, because the free      *)
(* count does not change and vdo_adjust_free_block_count is not called. *)
(* Even then the slab has free blocks, so bucket 0 is exactly the full  *)
(* slabs, which vdo_allocate_block relies on ("if we're out of space    *)
(* immediately after opening a slab, then every slab must be fully      *)
(* allocated").  Breaks if a free count change is not followed by       *)
(* reprioritization, or the unchanged-priority shortcut compares with   *)
(* a stale value.                                                        *)
QueuedPriorityIsCurrent ==
  \A p \in 0 .. MaxPriority : \A i \in DOMAIN prioritizedSlabs[p] :
     LET s == prioritizedSlabs[p][i]
     IN  /\ slabPriority[s] = p
         /\ \/ p = CalculateSlabPriority(refCounts, journalBlank, s)
            \/ /\ p = SP!UnopenedSlabPriority(DataBlocks)
               /\ FreeBlockCount(refCounts, s) > 0

(* vdo_allocate_block never meets an empty table with no open slab (the *)
(* NULL dereference of priority_table_dequeue's result): in normal      *)
(* operation there is always an open slab or a queued one.  Rests on    *)
(* scrub_at_least_one in vdo_prepare_slabs_for_allocation.              *)
OpenSlabAvailable ==
  adminState = "normal" =>
    openSlab # NoSlab \/ ~PT!IsPriorityTableEmpty(prioritizedSlabs)

(* vdo_allocate_block reports VDO_NO_SPACE only when every recovered    *)
(* slab of the zone is full.                                            *)
NoSpaceOnlyWhenFull ==
  noSpace =>
    \A s \in Slabs : ~unrecovered[s] => FreeBlockCount(refCounts, s) = 0

(* A drain that met an error in any step reports it when it finishes,   *)
(* and a drain without errors reports success, although the completion *)
(* result is cleared before every step.                                 *)
DrainReportsErrors ==
  adminState = "suspended" => ((drainResult = "io_error") <=> drainFailed)

(* Once the allocator stays in normal operation, every slab that the    *)
(* load left unrecovered is eventually scrubbed and queued for          *)
(* allocation, for good, also across drains and resumes that unlink the *)
(* scrubber's lists.                                                    *)
AllSlabsEventuallyRecovered ==
  <>[](adminState = "normal") => <>[](\A s \in Slabs : ~unrecovered[s])

(* Spec 8.4: after allocations and releases, allocated_blocks equals the *)
(* number of non-provisional non-zero counters of the allocator's slabs  *)
(* (stated where every slab is recovered).  allocate_slab_block counts  *)
(* a block as allocated as soon as it is provisionally referenced.      *)
AllocatedBlocksExcludeProvisional ==
  (Counted /\ \A s \in Slabs : ~unrecovered[s]) =>
    allocatedBlocks =
      Cardinality({<<s, b>> \in Slabs \X Blocks :
                     refCounts[s][b] \notin {0, Provisional}})

=============================================================================
