\* Stop is pressed, and the gateway or the resolver answered nothing.
SPECIFICATION Spec
CONSTANTS
    Loops = 1
    Options <- SomeOptions
    MaxCtrlC = 0
INVARIANT StoppedRunIsScored
CHECK_DEADLOCK FALSE
