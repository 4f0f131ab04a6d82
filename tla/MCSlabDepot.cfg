\* Three zones, a depot loaded with 2 slabs (one zone without a slab) that may
\* grow up to 9 slabs, in one or several growths, some of them abandoned.
\* The notifier may enter read-only mode and notify each allocator once at
\* any point.  Growth stops at MaxSlabs, so the depot may stop changing.
CONSTANT ZoneCount = 3
CONSTANT InitialSlabs = 2
CONSTANT MaxSlabs = 9
SPECIFICATION Spec
INVARIANT ZonesOwnTheirSlabs
CHECK_DEADLOCK FALSE
