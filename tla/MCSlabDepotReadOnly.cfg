\* The depot of MCSlabDepot.cfg, with the read-only notification free to run
\* on any allocator's thread while use_new_slabs registers zone by zone.
CONSTANT ZoneCount = 3
CONSTANT InitialSlabs = 2
CONSTANT MaxSlabs = 9
SPECIFICATION Spec
INVARIANT NotificationStaysInSlabArray
CHECK_DEADLOCK FALSE
