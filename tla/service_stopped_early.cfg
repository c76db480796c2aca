SPECIFICATION Spec
CONSTANTS
    MaxControls = 3
INVARIANT StoppedMeansReturned
CHECK_DEADLOCK FALSE
