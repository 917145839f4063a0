\* Interrupted runs, of which layers are missing.
SPECIFICATION Spec
CONSTANTS
    None = None
    Reports <- PartialOnly
INVARIANT MissingLayersExcluded
CHECK_DEADLOCK FALSE
