--------------------------- MODULE UdsConfiguration ---------------------------
(***************************************************************************)
(* make_configuration (src/uds/config.c): the index geometry chosen for a  *)
(* memory size (compute_memory_sizes), the number of indexing zones and    *)
(* of volume read threads (normalize_zone_count, normalize_read_threads),  *)
(* and the fields copied from the caller.                                  *)
(*                                                                         *)
(* The memory size codes and the chapter and page defaults are in uds.h    *)
(* and geometry.h, not in this tree: they are constants, given values in   *)
(* the .cfg that keep their order (the ordinary sizes 1 .. MAX below the   *)
(* REDUCED flag, the reduced sizes above it, the fractional codes above    *)
(* both).  Arithmetic is in the integers: an unsigned wrap of              *)
(* base_chapters - reduced_chapters shows as a negative number.            *)
(***************************************************************************)
EXTENDS Integers

CONSTANTS
  DefaultChaptersPerVolume,     \* DEFAULT_CHAPTERS_PER_VOLUME
  SmallRecordPagesPerChapter,   \* SMALL_RECORD_PAGES_PER_CHAPTER
  DefaultRecordPagesPerChapter, \* DEFAULT_RECORD_PAGES_PER_CHAPTER
  Config256MB, Config512MB, Config768MB,          \* UDS_MEMORY_CONFIG_*MB
  ConfigMax,                                      \* UDS_MEMORY_CONFIG_MAX
  ConfigReduced,                                  \* UDS_MEMORY_CONFIG_REDUCED
  ConfigReduced256MB, ConfigReduced512MB, ConfigReduced768MB,
  ConfigReducedMax,                               \* UDS_MEMORY_CONFIG_REDUCED_MAX
  MaxZones,                     \* MAX_ZONES
  Cores                         \* values uds_get_num_cores() may return

DefaultVolumeReadThreads == 2   \* DEFAULT_VOLUME_READ_THREADS
MaxVolumeReadThreads == 16      \* MAX_VOLUME_READ_THREADS

(* The three fractional sizes and their page counts. *)
FractionalPages ==
  [c \in {Config256MB, Config512MB, Config768MB,
          ConfigReduced256MB, ConfigReduced512MB, ConfigReduced768MB} |->
     CASE c \in {Config256MB, ConfigReduced256MB} -> SmallRecordPagesPerChapter
       [] c \in {Config512MB, ConfigReduced512MB} -> 2 * SmallRecordPagesPerChapter
       [] OTHER                                  -> 3 * SmallRecordPagesPerChapter]

(* The reduced codes without the three fractional ones. *)
ReducedCodesRangeOnly == 1 + ConfigReduced .. ConfigReducedMax

(* The codes that lose a chapter. *)
ReducedCodes == {ConfigReduced256MB, ConfigReduced512MB, ConfigReduced768MB}
               \cup (1 + ConfigReduced .. ConfigReducedMax)

(* The accepted codes and, for each, base_chapters, record pages per      *)
(* chapter and reduced_chapters, in the order of the if-else chain.       *)
SizeOfWithReducedFrom(mem, lowestReduced) ==
  IF mem \in DOMAIN FractionalPages
  THEN [ok |-> TRUE, base |-> DefaultChaptersPerVolume,
        pages |-> FractionalPages[mem],
        reduced |-> IF mem \in ReducedCodes THEN 1 ELSE 0]
  ELSE IF 1 <= mem /\ mem <= ConfigMax
  THEN [ok |-> TRUE, base |-> mem * DefaultChaptersPerVolume,
        pages |-> DefaultRecordPagesPerChapter, reduced |-> 0]
  ELSE IF lowestReduced <= mem /\ mem <= ConfigReducedMax
  THEN [ok |-> TRUE, base |-> (mem - ConfigReduced) * DefaultChaptersPerVolume,
        pages |-> DefaultRecordPagesPerChapter, reduced |-> 1]
  ELSE [ok |-> FALSE, base |-> 0, pages |-> 0, reduced |-> 0]

(* The reduced range starting at the REDUCED flag itself. *)
SizeOfFromFlag(mem) == SizeOfWithReducedFrom(mem, ConfigReduced)

SizeOf(mem) == SizeOfWithReducedFrom(mem, 1 + ConfigReduced)

(* Sparse chapters computed before the base is multiplied. *)
ComputeMemorySizesScaledFirst(mem, sparse) ==
  LET sz == SizeOf(mem)
      base == IF sparse THEN sz.base * 10 ELSE sz.base
  IN  [result |-> IF sz.ok THEN "success" ELSE "einval",
       chaptersPerVolume |-> base - sz.reduced,
       recordPagesPerChapter |-> sz.pages,
       sparseChaptersPerVolume |-> IF sparse THEN (9 * base) + (base \div 2) ELSE 0]

(* compute_memory_sizes: -EINVAL for a code the chain does not know;       *)
(* otherwise a sparse index gets 9.5 times the base in sparse chapters    *)
(* and ten times the base in all, and a reduced one a chapter less.       *)
ComputeMemorySizes(mem, sparse) ==
  LET sz == SizeOf(mem)
  IN  [result |-> IF sz.ok THEN "success" ELSE "einval",
       chaptersPerVolume |->
         (IF sparse THEN sz.base * 10 ELSE sz.base) - sz.reduced,
       recordPagesPerChapter |-> sz.pages,
       sparseChaptersPerVolume |->
         IF sparse THEN (9 * sz.base) + (sz.base \div 2) ELSE 0]

(* The zone count without the floor of one. *)
NormalizeZoneCountNoFloor(requested, cores) ==
  LET asked == IF requested = 0 THEN cores \div 2 ELSE requested
  IN  IF asked > MaxZones THEN MaxZones ELSE asked

(* normalize_zone_count: 0 asks for half the cores; clamp to 1 .. MAX.    *)
NormalizeZoneCount(requested, cores) ==
  LET asked == IF requested = 0 THEN cores \div 2 ELSE requested
      atLeastOne == IF asked < 1 THEN 1 ELSE asked
  IN  IF atLeastOne > MaxZones THEN MaxZones ELSE atLeastOne

(* normalize_read_threads: clamp to 1 .. MAX, 0 giving the default. *)
NormalizeReadThreads(requested) ==
  LET atLeastOne == IF requested < 1 THEN DefaultVolumeReadThreads ELSE requested
  IN  IF atLeastOne > MaxVolumeReadThreads THEN MaxVolumeReadThreads ELSE atLeastOne

(* make_configuration, on the path where the allocations and make_geometry *)
(* succeed: the geometry from compute_memory_sizes, the normalized counts, *)
(* the sample rate only for a sparse index, the nonce copied.              *)
MakeConfiguration(conf, cores) ==
  LET sizes == ComputeMemorySizes(conf.memorySize, conf.sparse)
  IN  [result |-> sizes.result,
       chaptersPerVolume |-> sizes.chaptersPerVolume,
       recordPagesPerChapter |-> sizes.recordPagesPerChapter,
       sparseChaptersPerVolume |-> sizes.sparseChaptersPerVolume,
       zoneCount |-> NormalizeZoneCount(conf.zoneCount, cores),
       readThreads |-> NormalizeReadThreads(conf.readThreads),
       sparseSampleRate |-> IF conf.sparse THEN "default" ELSE 0,
       nonce |-> conf.nonce]

-----------------------------------------------------------------------------
(* An index session makes its configuration once, from the caller's       *)
(* request, on a machine with some number of cores.                       *)
VARIABLE made

(* The requests checked: every memory code up to one past REDUCED_MAX and  *)
(* the six fractional codes, dense and sparse, zone and read thread counts *)
(* at 0, in range and one past the maximum, nonce 0.                      *)
MemoryCodes == (0 .. ConfigReducedMax + 1) \cup DOMAIN FractionalPages

Requests ==
  [memorySize : MemoryCodes, sparse : BOOLEAN,
   zoneCount : 0 .. MaxZones + 1,
   readThreads : {0, 1, MaxVolumeReadThreads, MaxVolumeReadThreads + 1},
   nonce : {0}]

NotMade == [request |-> "none"]

MadeInit == made = NotMade

(* A call of make_configuration and what it returned. *)
Make(conf, cores) ==
  /\ made = NotMade
  /\ made' = [request |-> conf, cores |-> cores,
              config |-> MakeConfiguration(conf, cores)]

(* free_configuration: the session is done with it. *)
FreeConfiguration ==
  /\ made # NotMade
  /\ made' = NotMade

MakeNext ==
  \/ \E conf \in Requests, cores \in Cores : Make(conf, cores)
  \/ FreeConfiguration

(* The reduced code of each ordinary one. *)
ReducedOf ==
  [m \in (1 .. ConfigMax) \cup {Config256MB, Config512MB, Config768MB} |->
     CASE m = Config256MB -> ConfigReduced256MB
       [] m = Config512MB -> ConfigReduced512MB
       [] m = Config768MB -> ConfigReduced768MB
       [] OTHER           -> m + ConfigReduced]

(* make_configuration succeeds only with a configuration an index can use: *)
(* at least one chapter, fewer sparse chapters than chapters (no wrap of   *)
(* base_chapters - reduced_chapters, sparse chapters taken from the base   *)
(* before it is multiplied), between 1 and MAX_ZONES zones and 1 and      *)
(* MAX_VOLUME_READ_THREADS readers, also when uds_get_num_cores() / 2 is   *)
(* 0, and exactly the zone count asked for when it is in range.           *)
MadeConfigurationIsUsable ==
  made # NotMade /\ made.config.result = "success" =>
    LET c == made.config IN
    /\ c.chaptersPerVolume >= 1
    /\ c.sparseChaptersPerVolume < c.chaptersPerVolume
    /\ c.zoneCount \in 1 .. MaxZones
    /\ made.request.zoneCount \in 1 .. MaxZones =>
         c.zoneCount = made.request.zoneCount
    /\ c.readThreads \in 1 .. MaxVolumeReadThreads

(* A configuration made from a reduced memory code (REDUCED_*MB, or        *)
(* REDUCED plus a size) has the geometry of its ordinary code with exactly *)
(* one chapter fewer, dense or sparse, and the same sparse chapters.       *)
ReducedIsOneChapterSmaller ==
  made # NotMade =>
    \A m \in DOMAIN ReducedOf :
      ReducedOf[m] = made.request.memorySize =>
        LET full == ComputeMemorySizes(m, made.request.sparse)
            c == made.config
        IN  /\ full.result = "success"
            /\ c.result = full.result
            /\ c.chaptersPerVolume = full.chaptersPerVolume - 1
            /\ c.recordPagesPerChapter = full.recordPagesPerChapter
            /\ c.sparseChaptersPerVolume = full.sparseChaptersPerVolume
=============================================================================
