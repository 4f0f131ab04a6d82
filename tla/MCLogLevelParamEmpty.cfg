\* The same stores, checked against the bounds of internal_buf; the empty
\* string reads internal_buf[-1].
CONSTANT Levels <- MCLevels
CONSTANT Inputs <- MCInputs
CONSTANT DefaultLevel = "info"
SPECIFICATION Spec
INVARIANT StoreStaysInBuffer
