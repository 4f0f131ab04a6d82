\* Three vios per extent, launches of 0 .. 4 blocks (4 is out of range),
\* three launches, two distinct I/O errors; an allocator of three slabs
\* whose actions finish at once or later with either error or success.
CONSTANTS
  ExtentSize = 3
  MaxLaunches = 3
  Errors = {ioError, readOnly}
  ActorSlabs = {0, 1, 2}
  ActionErrors = {ioError, readOnly}
SPECIFICATION ComposedSpec
\* The caller stops after its last launch and the extent goes idle; the
\* allocator applies one action to its slabs.
CHECK_DEADLOCK FALSE
INVARIANTS
  TypeOK
  FinishesWithFirstError
  NoFinishWhileVioOutstanding
  CallbackOnceAfterEverySlab
PROPERTIES
  EveryLaunchFinishes
  CallbackEventuallyRuns
