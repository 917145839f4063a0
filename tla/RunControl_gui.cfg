\* The web server without --daemon; full_diagnostic may raise, nothing else does.
SPECIFICATION Spec
CONSTANTS
    Runs = {r1, r2, r3}
    Stoppers = {s1}
    Faults = {"probe"}
    Daemon = FALSE
    None = None
INVARIANTS TypeOK AtMostOneActive StatusTellsTruth SavedWhenDone NoLeftoverStop ProgressIsOwn
PROPERTIES ShownUntilNextRun ImplementsSerialRuns
