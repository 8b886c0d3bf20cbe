\* The frame count bounds the run, so the run ends when it is used up.
SPECIFICATION Spec
CONSTANTS
    FreesQueued = TRUE
    MaxFrames = 4
    MaxWire = 3
INVARIANT RelayedAsReceived
CHECK_DEADLOCK FALSE
