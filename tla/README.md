# TLA+ models of the kvdo block allocator and its neighbours

This directory holds TLA+ specifications of parts of the kvdo sources in
`src/`, together with the TLC configurations that check them. `PROJECT.json`
lists the components, the runs, the mutants that each property must catch, the
source lines behind every definition, the findings and the hazards.

## The system

The tree is a slice of VDO (a deduplicating, compressing block layer):

| part | source | what it does |
|---|---|---|
| block allocator | `src/vdo/block-allocator.c` | one per physical zone; owns some slabs, keeps them in a priority table, hands out blocks from the *open slab*, tracks `allocated_blocks`, runs the load / prepare / drain / resume step machines |
| allocating vio | `src/vdo/allocating-vio.c` | a write's request for a block: tries its zone, hops to the next zone on `NO_SPACE`, waits on a zone's scrubber for a clean slab, takes a PBN write lock |
| metadata extent | `src/vdo/base/extent.c` | launches `count` metadata vios and finishes when they have all completed |
| index configuration | `src/uds/config.c` | encodes and decodes the UDS configuration in the 06.02 and 08.02 layouts |
| initialization | `src/vdo/vdoInit.c` | reads the geometry and creates the sysfs kobjects of a new VDO |
| sysfs / dump | `src/vdo/sysfs.c`, `src/vdo/kernel/dump.c` | the log level module parameter and the dump message |
| slab depot | `src/vdo/slab-depot.h` (declarations and the depot struct) | owns all slabs, partitions them among the zones' allocators (slab number mod zone count), grows by new slabs |
| kernel work | `src/vdo/kernelVDO.h` | declarations only |

Slab journals, reference counts, the slab summary, the slab scrubber and the
priority table are called by the allocator but are not in this tree. They are
modelled from `spec.md` (sections 4.1 to 4.6) only as far as the allocator
observes them, and those definitions are marked `spec_modelled` in the map.

How the parts interact:
* Loading the depot leaves each slab with counts, a journal and a summary
  entry.
* `vdo_prepare_block_allocator_to_allocate` pops the summarized statuses from a
  heap. It queues clean slabs, and every slab of a rebuild, straight into the
  priority table. It marks every other slab unrecovered and registers it with
  the scrubber, at high priority when it is clean under a normal load or its
  journal requires scrubbing. When the table is empty it has the scrubber
  scrub at least one slab before the zone comes online.
* The scrubber hands each scrubbed slab back through `vdo_queue_slab`.
* `vdo_allocate_block` takes a block from the open slab. When that slab is
  exhausted, it puts the slab back in the table, opens the highest-priority
  slab and tries once more.
* An allocated block holds a *provisional* reference. A journaled increment
  confirms it and `vdo_release_block_reference` vacates it. Every change of a
  slab's free count goes through `vdo_adjust_free_block_count`, which keeps
  `allocated_blocks` and the slab's place in the table current.
* A drain stops the scrubber, then `apply_to_slabs` clears the open slab and
  unlinks every slab, then the summary is drained. A resume runs the same steps
  in reverse, and `vdo_queue_slab` re-queues every slab without counting it
  again.
* An allocating vio calls `vdo_allocate_block` zone after zone. When every
  zone is out of space, it waits on a zone's scrubber.

## Modules

| module | models | kind |
|---|---|---|
| `SlabPriority` | `calculate_slab_priority` and the bounds from `allocate_components` | pure operators (RECURSIVE `LogBaseTwo`) |
| `MCSlabPriority` | checks the policy for all slab sizes 2..80 | harness |
| `PriorityTable` | the bucketed FIFO priority table (spec 4.1) | operators |
| `BlockAllocator` | one zone's allocator with its slabs | state machine |
| `MCBlockAllocator` | slab images and load types for TLC | harness |
| `MetadataExtent` | `launchMetadataExtent` and `handle_vio_completion` | state machine over the extent's vio completions |
| `SlabActor` | `apply_to_slabs`, `slab_action_callback`, `handle_operation_error` | state machine over the allocator's slab-action count |
| `MCMetadataExtent` | composes `MetadataExtent` and `SlabActor` for TLC | harness |
| `IndexConfig` | `write_config_contents`, `read_version`, the 06.02/08.02 encoders and decoders, `validate_config_contents` | codec operators and a write/validate state machine |
| `UdsConfiguration` | `make_configuration`, `compute_memory_sizes`, `normalize_zone_count`, `normalize_read_threads` | pure operators and properties quantified over every request |
| `MCIndexConfig` | configurations and initial region contents for TLC; extends both modules above | harness |
| `VdoInit` | `initialize_vdo` and `initialize_vdo_kobjects` on every failure path | one action over failure points |
| `DumpOptions` | `parse_dump_options`, `is_arg_string`, `do_dump`, `vdo_dump`, `vdo_dump_all` | operators over character sequences and a one-step state machine |
| `MCDumpOptions` | argument lists for TLC | harness |
| `LogLevelParam` | `vdo_log_level_store` and `vdo_log_level_show` | state machine over the static buffer |
| `MCLogLevelParam` | log level names and written strings for TLC | harness |
| `SlabDepot` | the zone partition, `vdo_register_slab_with_allocator`, `get_slab_iterator`, growth with `vdo_register_new_slabs_for_allocator`, `notify_block_allocator_of_read_only_mode` | state machine over the depot and the zones' allocators |
| `AllocatingVio` | a write's block allocation across zones: `vio_allocate_data_block`, `allocate_block_in_zone`, `try_next_zone`, `should_try_next_zone`, the wait on a scrubber and the retry | state machine over several vios and zones |

### BlockAllocator: state and actions

Variables and what they stand for:
* `refCounts[s][b]`: the reference count of block `b` of slab `s`.
  `Provisional` is the sentinel just above `MaxReferences`. For an unrecovered
  slab this is the count its journal replay will rebuild.
* `searchCursor`: the slab's search cursor.
* `journalBlank`: whether the slab's journal is still blank.
* `unrecovered`: `vdo_is_unrecovered_slab`.
* `slabPriority`: `slab->priority`.
* `prioritizedSlabs`: the priority table.
* `openSlab`: `open_slab`, or the model value `NoSlab` for NULL.
* `highPrioritySlabs`, `slabsToScrub`: the scrubber's two lists.
* `allocatedBlocks`: `allocated_blocks`.
* `adminState`, `drainStep`, `operationResult`: the admin state, `drain_step`
  and the result latched in the admin state.
* `summary`: the summarized status of each slab read at load.
* `loadType`: the depot's load type.
* `drains`: the number of drains so far, bounded by `MaxDrains`.
* `drainFailed`, `drainResult`, `noSpace`: history for the properties.

The allocator's helpers are operators over one record (`Queues`) of the
queueing state, so that they compose in the order the C calls do:
* `PrioritizeSlab`
* `RegisterSlabForScrubbing`
* `QueueSlab`
* `AdjustFreeBlockCount`
* `DetachAllSlabs` (the unlinking part of `apply_to_slabs`)

Each action is one callback on the allocator's thread, run to completion:

| action | code |
|---|---|
| `Init` | the state after `initiate_load`; a rebuild erases the journals |
| `PrepareToAllocate` | `vdo_prepare_slabs_for_allocation` (heap order `SlabStatusOrder`, `PrepareSlab` per slab) and the `scrub_at_least_one` call |
| `ScrubSlab` | the scrubber finishing one slab: high-priority list first; the normal list only once the zone is online |
| `FinishPreparing` | high-priority scrubbing completing the prepare |
| `Allocate` | `vdo_allocate_block` with `allocate_slab_block` |
| `Confirm`, `Share`, `Decrement` | journaled reference count updates |
| `ReleaseBlockReference` | the unjournaled vacate |
| `StartDrain`, `DrainSlabs`, `DrainStepDone(r)`, `FinishDrain` | `do_drain_step`; `r` is the result of the slab or summary drain |
| `StartResume`, `ResumeSlabs`, `ResumeScrubber`, `FinishResume` | `do_resume_step` |

Reference count updates on an unrecovered slab only go into the journal; the
allocator is not told until the slab is queued. The model does the same.

### AllocatingVio: state and actions

Each zone is abstracted to what an allocating vio observes of its allocator:
* `free[z]`, `used[z]`: free and allocated blocks of the zone's slabs;
* `toScrub[z]`: slabs its scrubber still has to scrub (`vdo_enqueue_for_clean_slab`
  answers `NO_SPACE` when it is 0);
* `waiters[z]`: the FIFO of vios waiting on the scrubber for a clean slab.

Per vio: `phase`, `zone`, `attempts` (`allocation_attempts`),
`waitForClean` (`wait_for_clean_slab`), `allocated` and `result`. `asked[v]`
records the zones whose scrubber answered `NO_SPACE` in this request.

| action | code |
|---|---|
| `VioAllocateDataBlock(v, z)` | `vio_allocate_data_block`: reset, pick the hashed zone, launch |
| `AllocateBlockInZone(v)` | `allocate_block_in_zone` with `should_try_next_zone`, `try_next_zone` and `finish_allocation` |
| `ScrubSlab(z, k)` | the scrubber finishing a slab with `k` free blocks and notifying all its waiters, each of which runs `retry_allocate_block_in_zone` |
| `ReleaseAllocation(v, written)` | `vio_release_allocation_lock` and `vio_reset_allocation` at the end of a write, returning the block if it was not written |
| `ReleaseUsedBlock(z)` | a later overwrite freeing a block |

`attempt_pbn_write_lock` is taken to succeed: blocks are counts here, so a
block already locked by another write cannot arise.

### MetadataExtent

`result` and `complete` are the extent's completion, `completeCount` is
`complete_count`, `outstanding` holds the launched vios whose completion has
not run, and `vioResults` holds the results in the order they arrived.
`Launch(count)` is `read_partial_metadata_extent` or
`write_partial_metadata_extent`. The caller waits for the completion before it
relaunches. `HandleVioCompletion(i, r)` is vio `i` completing with result `r`.
All vios call back on the extent's thread, so completions are serialized but
can come in any order. `set_completion_result` (`completion.c`, not in this
tree) keeps the first error, following spec section 7.

### SlabActor

Every drain and resume step of an allocator that touches its slabs goes
through `apply_to_slabs`. `actionCount` is `slab_actor.slab_action_count`,
`nextSlab` the slab iterator, `pendingSlabs` the slabs whose action was
started and has not finished, `actorResult` the result latched in the admin
state and `callbackRuns` the number of times `actor->callback` ran.
`ApplyToSlabs` is the function up to its loop (the count starts at 1),
`StartSlabAction(atOnce, r)` one iteration: the count goes up and
`vdo_start_slab_action` either finishes the slab's action at once, running
`handle_operation_error` and `slab_action_callback` inside the loop (the
completion's `requeue` is off), or leaves it queued. `EndApplyToSlabs` is the
function's own last call of `slab_action_callback`, and `SlabActionDone(s, r)`
a queued action finishing later, in any order. The slab actions themselves
(the slab journal and reference counts) are not in this tree and appear only
as their result. `BlockAllocator` folds the whole of `apply_to_slabs` into
one drain step; this module checks the counting that the fold takes for
granted. `MCMetadataExtent` runs it beside `MetadataExtent`, the tree's other
completion counter; the two share no state, and the product is small.

### IndexConfig

The config region holds a sequence: the magic and the version string as whole
tokens, then the payload bytes. Each byte is a digit of base `ByteBase`
(4 in the run), so a u32 field holds 0..255 and a u64 field 0..65535. The
widths and the little-endian order of the layouts are kept: an 08.02 header
over a 06.02-sized payload is a short read. `EncodeFields` and `DecodeFields`
do the puts and gets of the four coders over a layout, which is a sequence of
field names. `Write(c, v)` is `write_config_contents`. A failed write leaves
the region as it was, because the configuration is smaller than the one block
the buffered writer flushes. `Validate(u)` is `validate_config_contents` with
caller configuration `u`.

### UdsConfiguration

`MakeConfiguration(conf, cores)` is `make_configuration` on the path where the
allocation and `make_geometry` succeed: it gives `compute_memory_sizes`'s
result and geometry, the normalized zone and read-thread counts, the sparse
sample rate, and the copied nonce. `cores` is what `uds_get_num_cores()`
returns. `SizeOf(mem)` is the if-else chain of `compute_memory_sizes`. It
yields the base chapters, the record pages and the reduced chapter. The sparse
scaling and the final subtraction are in `ComputeMemorySizes`.

The memory codes (`UDS_MEMORY_CONFIG_*`) and the chapter and page defaults
are defined in `uds.h` and `geometry.h`, which are not in this tree. They are
constants here. The cfg gives them small values that keep the layout of the
codes: 1..MAX, then the `REDUCED` flag with the reduced sizes above it, and
the six fractional codes apart from both. The arithmetic is done in the
integers, so an unsigned wrap of `base_chapters - reduced_chapters` shows up
as a negative chapter count. `made` holds the last call's request, core
count and result. `Make(conf, cores)` is a call of `make_configuration`.
`FreeConfiguration` is `free_configuration`.

`MCIndexConfig` composes this module with `IndexConfig` in `ComposedSpec`.
The two modules share no state, so the order of their steps cannot affect
either module's properties. Configurations are made and freed only while the
region is untouched, and the region is used only while no configuration is
held. This covers every request and every region behaviour without building
their product. The product took more than 13 minutes to check.

### VdoInit

`InitializeVdo(fail)` is all of `initialize_vdo`. It fails at the geometry
read, at either `kobject_add`, or not at all. `kref` counts the references to
the two kobjects. Per the comment at `vdoInit.c:110-114`, the last
`kobject_put` of `vdo_directory` frees the kernel layer, and `layerFrees`
counts those frees.

### DumpOptions

An argument is a sequence of characters, because `is_arg_string` matches by
prefix. It compares `strlen(option)` characters of the argument, ignoring
case, so `bioackq`, `BIO` and `allocator` are all accepted (the last one as
`all`). `OptionNames` is `option_names[]` in table order. `FirstMatch` is the
loop that breaks at the first match. `ParseDumpOptions` ORs the flags
(community `Bitwise`), fails with `-EINVAL` after the loop if any argument
matched nothing, and adds the defaults when no option set
`FLAG_SKIP_DEFAULT`. `DoDump` is the set of things `do_dump` shows. The flag
word is cut to 16 bits because TLC's integers are 32-bit signed; `do_dump`
reads bits 0 to 7 only.

### LogLevelParam

`internalBuf` is the static `internal_buf[11]`, which persists across stores.
`VdoLogLevelStore(buf)` is the whole store:
* the `n > 10` check;
* the `memset` and the copy of `n` bytes;
* the newline strip at `n - 1`;
* `set_uds_log_level(uds_log_string_to_priority(...))`.

For `n = 0` the index `-1` is the byte before the buffer. The program cannot
know that byte, so it is `adjacent`, which starts as any byte, and `stray`
records the out-of-bounds read and the write. `uds_log_string_to_priority` is
not in this tree: a level's name gives the level, anything else the default.

### SlabDepot

Slab `s` belongs to zone `s % ZoneCount`. Each allocator keeps only
`slab_count` and `last_slab`. Its iterator walks from `last_slab` down in
strides of the zone count. Growth has three steps:
* `PrepareToGrow(n)` prepares the new slabs;
* `UseNewSlabs` starts a zone action that runs
  `RegisterNewSlabsForAllocator(z)` on each zone in turn;
* `FinishRegistration` promotes the new slabs.

`AbandonNewSlabs` discards the prepared slabs. `slab-depot.c` is not in this
tree, so decode, prepare, use and abandon follow spec 4.8 and are marked
`spec_modelled`. The per-zone registration is `block-allocator.c:895-917`.

The read-only notifier is not in this tree. `EnterReadOnlyMode` stands for
any thread entering read-only mode, which spec 4.7 allows at any time, and the
mode is sticky. `NotifyBlockAllocatorOfReadOnlyMode(z)` is the listener that
the notifier runs once on each allocator's thread
(`block-allocator.c:162-178`). It walks `get_slab_iterator`, which indexes
`depot->slabs`, to abort each slab journal's waiters. The slab journals are
not modelled, so the step records only the slab numbers it visits at or past
`depot->slab_count`, in `strayVisits`. A zone action runs on one zone at a
time. A zone that has already registered is free to take the notification
while the action moves on to the next zone.

## Runs

| run | what it shows |
|---|---|
| `slab_priority` (`MCSlabPriority.cfg`, pass) | for every slab of 2..80 blocks, every free count and both journal states, the priority is a bucket of the table (`PriorityWithinTable`) and 0 goes to full slabs only (`OnlyFullSlabsAtZero`) |
| `allocator_safety` (`MCBlockAllocator.cfg`, pass) | see the properties below |
| `allocator_liveness` (`MCBlockAllocatorLive.cfg`, pass) | `AllSlabsEventuallyRecovered`: every slab left unrecovered by a normal load is eventually scrubbed and queued, also across a drain that unlinks the scrubber's lists |
| `allocated_excludes_provisional` (`MCBlockAllocatorProvisional.cfg`, violation) | spec 8.4 against `allocate_slab_block` |
| `extent_safety` (`MCMetadataExtent.cfg`, pass) | `FinishesWithFirstError`: the extent fires with `OUT_OF_RANGE` for a too-long launch and otherwise with the first error its vios completed with; `NoFinishWhileVioOutstanding`: it never fires while a launched vio is outstanding; `EveryLaunchFinishes`: every launch of at least one block fires, relaunches included; `CallbackOnceAfterEverySlab`: `apply_to_slabs` runs its callback at most once, only after every slab was started and has finished, with the first error a slab reported; `CallbackEventuallyRuns`: once started, the callback runs |
| `index_config` (`MCIndexConfig.cfg`, pass) | `SavedConfigurationRoundTrips`: validation against the saved configuration succeeds with the saved remapping for version 4 or later and none for 06.02 (spec 8.6, E3, E4); `AcceptsOnlyMatchingConfiguration`: nothing but a saved configuration equal to the caller's in all other fields is accepted; `MadeConfigurationIsUsable`: every configuration `make_configuration` accepts has at least one chapter and fewer sparse chapters than chapters, 1..`MAX_ZONES` zones (the requested count when it is in range, also on one core), and 1..16 read threads; `ReducedIsOneChapterSmaller`: each reduced memory code gives its ordinary code's geometry with exactly one chapter fewer |
| `vdo_init_double_free` (`MCVdoInitDoubleFree.cfg`, violation) | `LayerFreedAtMostOnce` against the error exit of `initialize_vdo` |
| `dump_options` (`MCDumpOptions.cfg`, pass) | `DumpMatchesRequest`: for every message of up to two arguments, the command is refused exactly when an argument names no option. Otherwise it dumps what the *most specific* option each argument starts with asks for, with the defaults added unless an option overrides them. The first match in table order is not always the most specific one: `dedupe`, `bioack`, `bio` and `cpu` come before the longer names they prefix (`dedupeq`, `bioackq`, `bioq`, `cpuq`) and shadow them. The property holds because each such pair sets the same flags |
| `log_level_empty_string` (`MCLogLevelParamEmpty.cfg`, violation) | `StoreStaysInBuffer` against the empty string |
| `depot_growth` (`MCSlabDepot.cfg`, pass) | `ZonesOwnTheirSlabs`: between zone actions, across growths (some abandoned), each allocator counts and iterates exactly its zone's slabs |
| `depot_readonly_window` (`MCSlabDepotReadOnly.cfg`, violation) | `NotificationStaysInSlabArray` against a read-only notification during `use_new_slabs` |
| `vio_allocation_safety` (`MCAllocatingVio.cfg`, pass) | `WaitingVioQueuedOnce`: a waiting vio is on exactly its zone's waiter queue, once; `NoSpaceMeansEveryScrubberAsked`: a vio gives up only after every zone's scrubber answered `NO_SPACE`; `EveryAllocationFinishes`: every request completes, with or without a block |

The properties of `allocator_safety`:
* `SlabInExactlyOnePlace` (spec 8.3): while linked, each slab is in exactly one
  of three places: the open slab, once in the table, or once on a scrubber
  list. It is on a scrubber list exactly when it is unrecovered.
* `AllocatedBlocksAccurate`: `allocated_blocks` is the number of used blocks of
  the recovered slabs plus every block of each unrecovered slab. This must
  hold across prepare, scrubbing, allocation, releases and a
  drain/resume that re-queues every slab.
* `QueuedPriorityIsCurrent`: a queued slab sits in the bucket of its recorded
  priority, and that priority is what `calculate_slab_priority` gives now.
  There is one exception. A slab is queued at the unopened priority while its
  journal is blank. Its provisional block is then confirmed by a journaled
  increment. The journal becomes non-blank, but the free count does not
  change, so `vdo_adjust_free_block_count` is not called and the slab keeps
  the unopened priority. TLC reaches this in 8 steps: allocate two blocks of
  a blank slab, open the other slab, vacate one block, confirm the other.
  Even then the slab has free blocks, so bucket 0 is exactly the full slabs.
  The stale priority only changes which slab with space is opened first.
* `OpenSlabAvailable`: in normal operation there is an open slab or a queued
  one, so `vdo_allocate_block` never dequeues NULL.
* `NoSpaceOnlyWhenFull`: `NO_SPACE` only when every recovered slab is full. This
  is the comment at `vdo_allocate_block`'s retry.
* `DrainReportsErrors`: a drain that met an error reports it, and one that
  did not reports success.

Every property has a mutant in `PROJECT.json`: a plausible bug in the mapped
definition that TLC must catch under the run's own configuration. Examples:
* re-counting resumed slabs;
* not reprioritizing on a free count change;
* ignoring `scrub_at_least_one`;
* not retrying on the next slab after the open slab is exhausted;
* a priority table one bucket short;
* letting a later step's result overwrite the latched error;
* dropping an unrecovered slab on resume.

### Findings

`initialize_vdo` frees the layer twice when a `kobject_add` fails.
`initialize_vdo_kobjects` has already dropped the last reference to
`vdo_directory` (`vdoInit.c:65` and `:77`), and by the comment at lines 110-114
that frees the kernel layer. `initialize_vdo` then calls `FREE(layer)` at
line 121. TLC reaches `layerFrees = 2` in one step
(`vdo_init_double_free`).

`allocate_slab_block` calls `vdo_adjust_free_block_count(slab, false)` as soon
as a block is provisionally referenced, so `allocated_blocks` counts
provisional blocks. Spec 8.4 says it counts only non-provisional references.
TLC finds this after one allocation (`allocated_excludes_provisional`). The
code's accounting is the one `AllocatedBlocksAccurate` verifies.

`finish_allocation` (`allocating-vio.c:89`) turns `VDO_NO_SPACE` into
`VDO_SUCCESS` so that the write can still deduplicate; spec scenario E2 says
the caller's completion fires with `NO_SPACE`. The code's comment states
the conversion as intended, so the model follows the code and no run checks
the spec's wording.

`vdo_log_level_store` checks only `n > 10`. For the empty string (`log_level=`
on the module command line, or a NUL byte written to the sysfs file),
`internal_buf[n - 1]` at `sysfs.c:64` reads the byte before the static buffer.
If that byte is a newline, the store writes a NUL over it. TLC finds it in
one store (`log_level_empty_string`).

`vdo_register_new_slabs_for_allocator` moves `last_slab` to a new slab while
`depot->slabs` and `slab_count` stay the old ones until `use_new_slabs`
concludes: its loop at `block-allocator.c:908` still reads the old
`slab_count`. `get_slab_iterator` walks `depot->slabs` from `last_slab`, and
the read-only notification runs it on the allocator's thread. TLC finds a
6-step behaviour (`depot_readonly_window`). A depot of 2 slabs grows to 4,
and zone 0 registers slab 3. Some thread then enters read-only mode, and zone
0's notification visits slab 3 of the 2-entry array. The spec
says nothing that keeps the notification out of this window. Whether
`slab-depot.c` (not in this tree) keeps the notifier quiet during growth
decides whether this is an out-of-bounds read in practice. It is recorded as
a spec gap.

## Bounds and why they suffice

`MCBlockAllocator.cfg` has 2 slabs of 2 data blocks, `MaxReferences = 1` and
one drain. The slabs are drawn from four images under all three load types:
* never written and clean;
* clean with counts on disk;
* dirty with a journal that requires scrubbing (high priority);
* dirty without one (normal list).

These bounds are enough for the following cases to occur:
* With 2 data blocks, a slab's priority takes every kind of value:
  * 0 (full);
  * the unopened bucket (blank journal);
  * 2 and 3 (written, with 1 or 2 free blocks). The reserved unopened bucket
    is 1, so both sit above it.
* An open slab can be exhausted while the other slab still has space, and
  both slabs can fill.
* The scrubber's two lists and the `scrub_at_least_one` promotion are reached:
  two dirty slabs with no clean one promote one slab.
* A drain can fail in its slab step or its summary step, and can start while
  slabs are still waiting to be scrubbed.
* Saturation at `MaxReferences` occurs.

The run reaches about 2.6 million distinct states in about a minute and a
half.

The liveness run uses only the images that are not high priority under a
normal load, with `MaxReferences = 2` so that shares occur. That keeps the
behaviour graph small enough for TLC's liveness check. It reaches about 0.7 million
distinct states.

`MCAllocatingVio.cfg` has 2 zones and 2 vios, one free block per scrubbed slab,
at most one used block and one slab to scrub per zone. Two zones give a round
over "the other zones" and a wait round, so an off-by-one in
`allocation_attempts` gives up early or retries a zone (both mutants are
found); two vios let one take the block another was woken for, and let both
wait on one scrubber. Three zones would lengthen the round, but the liveness
check over that graph takes over ten minutes.

`MCMetadataExtent.cfg` uses an extent of 3 vios, launches of 0 to 4 blocks
(4 is out of range, 0 launches nothing), three launches and two error codes.
This covers partial launches, every completion order of up to three vios, two
different errors in either order, and a relaunch after each kind of finish.
Its allocator has three slabs whose actions finish at once or later, with
success or either error: every slab can finish inside the loop before the next
is started, which is what the count's initial 1 is for, and the queued ones
finish in every order.
`MCIndexConfig.cfg` uses four configurations: a base one, one with a
remapping, one with another nonce and one with another chapter count. The
versions are 0, 3, 4 and 5, around the `version < 4` boundary. The initial
regions are empty, a foreign file, an unknown version, or an 08.02 header
with a short payload. The `make_configuration` requests cover:

- every memory code from 0 to one past `REDUCED_MAX`, and the six fractional codes;
- dense and sparse indexes;
- zone requests 0..`MAX_ZONES`+1;
- read-thread requests 0, 1, 16 and 17;
- 1, 2 and 16 cores. One core makes the half-the-cores default 0.

Both boundaries of each range check and both clamps are therefore reached.

`MCDumpOptions.cfg` builds arguments from every option name: the name itself,
the name with a character appended, the name less its last character, the
name with an upper-case first letter, and the empty string. Lists have up to
two arguments, so a shadowed name, an override together with a default, and an
unknown argument next to a known one all occur. `MCLogLevelParamEmpty.cfg`
has names of 4, 5, 7 and 9 characters, each with and without a newline, a
bare newline, the empty string, and names of 10 and 11 characters. `MCSlabDepot.cfg` has 3 zones and 2 slabs at load,
so one zone starts with no slab, and grows up to 9 slabs, which takes at
least one growth past every zone. The read-only mode may be entered at any
point, so every zone's notification happens before, during and after a
growth.

## Fairness

In `MetadataExtent` every launched vio's completion is weakly fair: the I/O
completes. In `SlabActor` the loop of `apply_to_slabs` and its last call are
weakly fair (straight-line code on the allocator's thread), and so is every
queued slab action (a completion on that thread); starting `apply_to_slabs`
comes from a drain or resume and is not fair.

Every admin step and the scrubber are weakly fair. Each is a callback queued
on the allocator's thread, and the scrubber launches its next slab as soon as
one finishes. Starting a drain or a resume, and every user operation, are
left without fairness: they come from outside.

In `AllocatingVio` each vio's next step is weakly fair (its completion is
queued on a zone thread) and so is each zone's scrubbing while it has slabs
left (the scrubber launches the next slab as soon as one finishes). New
requests, releases and overwrites come from outside and are not fair.

Drains are bounded, so a behaviour that keeps resuming stays in normal
operation in the end. `AllSlabsEventuallyRecovered` is therefore stated for
behaviours that stay in normal operation.

## Not modelled, and why

* A refinement of `BlockAllocator` to a set-level abstract allocator (free,
  provisional, referenced and pending blocks). It was checked in an earlier
  version and removed. Under the mapping, "only a free block is handed out"
  follows from the model's own search for an unreferenced block, which
  `ref_counts.c` performs outside this tree. Confirm, release, withdraw and
  recover matched by their guards. The one part that depends on the code
  here, `NO_SPACE` only when nothing is free, is `NoSpaceOnlyWhenFull`.
* `log_base_two` (`num-utils.h`) is not in this tree. `LogBaseTwo` is the
  floor of log2 from the spec and is not checked against a reference, since
  that would check the spec against itself.

* The dump output itself: logging.
* `vdo_status_show`: it only formats `vdo_module_status`.
* The dedupe timer parameter stores. They call `param_set_uint` and setters in
  `dedupeIndex.c`, and neither is in this tree.
* `kernelVDO.h`: declarations only.
* The rest of `slab-depot.h` (`get_slab`, the summary, statistics): its
  implementation is not in this tree.
* Statistics and vio pools of the allocator. The read-only notification is
  modelled only for the slabs it walks. The slab journal waiters it aborts are
  not modelled.
* `make_geometry` (in `geometry.c`) and the actual values of the memory-size
  codes, which are not in this tree. `make_configuration` is modelled on the
  path where `make_geometry` succeeds. Its failure path only frees memory.
  `log_uds_configuration` only logs.
* `vdo_dump_block_allocator` walks the same iterator. Its doc comment calls
  it thread-unsafe, so it is not modelled as a step of its own.
* The multi-zone interleaving of the heap walk. Each allocator skips the
  slabs of other zones, so a single allocator owning all slabs is
  representative.
* `vdo_queue_slab`'s read-only branch for a slab reporting more free blocks
  than it has. No modelled state reaches it.

## Plan

The order is by importance of the behaviour.

1. **Done**: `SlabPriority`, `PriorityTable`, `BlockAllocator` (safety,
   liveness and the spec 8.4 divergence).
2. **Done**: `AllocatingVio` (safety and liveness; the E2 difference is
   documented above).
3. **Done**: `MetadataExtent`, `IndexConfig`, `VdoInit`.
4. **Dropped**: a set-level abstract allocator refined by `BlockAllocator`
   (see "Not modelled").
5. **Done**: `DumpOptions`, `LogLevelParam` (with the empty-string finding),
   `SlabDepot` (partition and growth).
6. **Done**: the read-only notification during growth (`depot_readonly_window`).
7. **Done**: `UdsConfiguration` (`make_configuration` and its helpers).
8. **Done**: `SlabActor` (the slab-action count of `apply_to_slabs`).
9. Later: slab journal lock release and a crash/replay model of journal plus
   summary; an abstract allocator is worth refining only together with them.
