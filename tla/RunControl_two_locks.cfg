\* A request beside the daemon loop, without any fault.
SPECIFICATION Spec
CONSTANTS
    Runs = {r1, r2}
    Stoppers = {s1}
    Faults = {}
    Daemon = TRUE
    None = None
INVARIANT AtMostOneActive
