\* initialize_vdo once, failing at each point or not at all.
SPECIFICATION Spec
\* initialize_vdo runs once and returns.
CHECK_DEADLOCK FALSE
INVARIANTS
  LayerFreedAtMostOnce
