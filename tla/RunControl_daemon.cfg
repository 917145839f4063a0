\* The web server beside the daemon loop, with every fault.
SPECIFICATION Spec
CONSTANTS
    Runs = {r1, r2}
    Stoppers = {s1}
    Faults = {"args", "probe", "save"}
    Daemon = TRUE
    None = None
INVARIANTS LockHeldWhileSaving GuiSessionsWhole
PROPERTIES ThreadsEnd
