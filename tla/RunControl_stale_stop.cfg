\* A POST /api/stop that began during one run, delayed into the next.
SPECIFICATION Spec
CONSTANTS
    Runs = {r1, r2}
    Stoppers = {s1}
    Faults = {}
    Daemon = FALSE
    None = None
INVARIANT NoStaleStop
