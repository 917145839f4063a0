\* Every caller; two hosts, two names, two TCP targets.
SPECIFICATION Spec
CONSTANTS
    Loops = 2
    Options <- SomeOptions
    MaxCtrlC = 2
INVARIANTS TypeOK ReportIsPrefix UnmarkedIsComplete
PROPERTIES NoProbeAfterStop KeepsContract InterruptedRunIsSaved
CHECK_DEADLOCK FALSE
