\* Every dump message of up to two arguments built from the option names.
\* A dump message is handled once, so every behaviour stops after one step.
CONSTANT MaxArgs = 2
CONSTANT ArgVectors <- MCArgVectors
SPECIFICATION Spec
INVARIANT DumpMatchesRequest
CHECK_DEADLOCK FALSE
